---------------------------- MODULE Spec2Model ----------------------------
(***************************************************************************)
(* Model of the hasagi command line (src/bin/index.ts): one process run of *)
(* one of the commands request, listen, schema and credentials, together   *)
(* with the collaborators the run talks to: the LCU client handle          *)
(* (@hasagi/core), the schema generator (@hasagi/schema), the file system  *)
(* (fs/promises) and standard output.                                      *)
(*                                                                         *)
(* Text the program inspects character by character (method, path, out) is *)
(* a sequence of one-character strings; text it only passes on is a        *)
(* string.  Flat turns the former into the latter.                         *)
(***************************************************************************)
EXTENDS Integers, Sequences, FiniteSets, TLC

\* ------------------------------------------------------------------ bounds

\* How many 'connection-attempt-failed' signals may precede readiness.
MaxAttempts == 2
\* How many websocket events the transport delivers to the listen callback.
MaxEvents == 2

\* ------------------------------------------------------- program constants

\* The indent argument of every JSON.stringify(x, null, 4).
IndentWidth == 4

\* ------------------------------------------------------------ JSON values

JUndef == [t |-> "undef"]
JNull == [t |-> "null"]
JNum(n) == [t |-> "num", n |-> n]
JStr(s) == [t |-> "str", s |-> s]
\* An object: the sequence of its <<key, value>> properties, in order.
JObj(f) == [t |-> "obj", f |-> f]

Nullish(v) == v.t \in {"undef", "null"}

\* Coalesce without the default: the value as it is, undefined included.
CoalesceKeepsUndefined(v, d) == v

\* x ?? d: d when x is null or undefined.
Coalesce(v, d) == IF Nullish(v) THEN d ELSE v

\* if (x): the truthiness of a value.
Truthy(v) ==
    CASE v.t = "undef" -> FALSE
      [] v.t = "null" -> FALSE
      [] v.t = "num" -> v.n # 0
      [] v.t = "str" -> v.s # ""
      [] OTHER -> TRUE

RECURSIVE Pad(_)
Pad(n) == IF n = 0 THEN "" ELSE " " \o Pad(n - 1)

RECURSIVE JoinWith(_, _)
JoinWith(parts, sep) ==
    IF Len(parts) = 0 THEN ""
    ELSE IF Len(parts) = 1 THEN parts[1]
    ELSE parts[1] \o sep \o JoinWith(Tail(parts), sep)

\* JSON.stringify(v, null, IndentWidth) of a value nested lvl objects deep.
\* A property whose value is undefined is left out.
RECURSIVE StringifyAt(_, _)
StringifyAt(v, lvl) ==
    CASE v.t = "num" -> ToString(v.n)
      [] v.t = "str" -> "\"" \o v.s \o "\""
      [] v.t = "null" -> "null"
      [] v.t = "undef" -> "undefined"
      [] OTHER ->
          LET kept == SelectSeq(v.f, LAMBDA p : p[2].t # "undef")
              line(p) == Pad(IndentWidth * (lvl + 1)) \o "\"" \o p[1] \o "\": "
                             \o StringifyAt(p[2], lvl + 1)
              lines == [i \in 1..Len(kept) |-> line(kept[i])]
          IN IF Len(kept) = 0 THEN "{}"
             ELSE "{\n" \o JoinWith(lines, ",\n") \o "\n"
                      \o Pad(IndentWidth * lvl) \o "}"

Stringify(v) == StringifyAt(v, 0)

\* `${v}` inside a template literal.
Interp(v) ==
    CASE v.t = "num" -> ToString(v.n)
      [] v.t = "str" -> v.s
      [] v.t = "null" -> "null"
      [] v.t = "undef" -> "undefined"
      [] OTHER -> "[object Object]"


\* ---------------------------------------------------------------- strings

\* The string a sequence of characters spells.
RECURSIVE Flat(_)
Flat(cs) == IF Len(cs) = 0 THEN "" ELSE Head(cs) \o Flat(Tail(cs))

\* String.prototype.toUpperCase on the letters the inputs use.
UpperChar(c) ==
    CASE c = "g" -> "G"
      [] c = "e" -> "E"
      [] c = "t" -> "T"
      [] c = "p" -> "P"
      [] c = "u" -> "U"
      [] c = "a" -> "A"
      [] c = "b" -> "B"
      [] OTHER -> c
toUpperCase(cs) == [i \in 1..Len(cs) |-> UpperChar(cs[i])]

\* s.substring(from): s without its first `from` characters.
substring(cs, from) ==
    IF from >= Len(cs) THEN <<>> ELSE SubSeq(cs, from + 1, Len(cs))

\* s.replaceAll(a, b) for one-character a and b.
replaceAll(cs, a, b) == [i \in 1..Len(cs) |-> IF cs[i] = a THEN b ELSE cs[i]]

\* The segments of a path between its "/" separators.
RECURSIVE SplitFrom(_, _, _, _)
SplitFrom(cs, i, cur, acc) ==
    IF i > Len(cs) THEN Append(acc, cur)
    ELSE IF cs[i] = "/" THEN SplitFrom(cs, i + 1, <<>>, Append(acc, cur))
    ELSE SplitFrom(cs, i + 1, Append(cur, cs[i]), acc)
Split(cs) == SplitFrom(cs, 1, <<>>, <<>>)

RECURSIVE JoinSegments(_)
JoinSegments(segs) ==
    IF Len(segs) = 0 THEN <<>>
    ELSE IF Len(segs) = 1 THEN segs[1]
    ELSE segs[1] \o <<"/">> \o JoinSegments(Tail(segs))

\* path.normalize for paths without ".." segments: empty and "." segments
\* go, a leading "/" stays, and the empty path is ".".
Normalize(cs) ==
    LET segs == SelectSeq(Split(cs), LAMBDA g : g # <<>> /\ g # <<".">>)
        body == JoinSegments(segs)
        abs == Len(cs) > 0 /\ cs[1] = "/"
    IN IF abs THEN <<"/">> \o body
       ELSE IF Len(body) = 0 THEN <<".">>
       ELSE body

\* _path.join(a, b).
PathJoin(a, b) == Normalize(a \o <<"/">> \o b)


\* ----------------------------------------------------------------- inputs

\* An option that was not given, and one given with value v.
Unset == [set |-> FALSE]
Given(v) == [set |-> TRUE, v |-> v]

Commands == {"request", "listen", "schema", "credentials"}
ClientCommands == {"request", "listen", "credentials"}

Methods == { <<"g", "e", "t">>, <<"P", "u", "t">> }
Paths == { <<"/", "a", "/", "b">>, <<"/", "A">>, <<"a", "/", "b">> }
\* --out: not given, given empty, an existing directory, a missing path, an
\* existing file.
Outs == { Unset, Given(<<>>), Given(<<"d">>), Given(<<"m">>), Given(<<"f">>) }
\* --body and --query: JSON text ("{" is not JSON).
BodyTexts == { Unset, Given("7"), Given("{") }
QueryTexts == { Unset, Given("\"q\"") }
\* What Date.now() may return.
Timestamps == { 1, 2 }

Filters ==
    { [name |-> Unset, path |-> Unset, type |-> Unset],
      [name |-> Given("OnJsonApiEvent"), path |-> Unset,
       type |-> Given(<<"Create", "Update">>)],
      [name |-> Unset, path |-> Given("/lol-lobby/v2/lobby"), type |-> Unset] }

SchemaDirs == { Unset, Given(<<>>), Given(<<"s">>) }
Namespaces == { Unset, Given("LCU") }

NoOptions ==
    [method |-> <<>>, path |-> <<>>, body |-> Unset, query |-> Unset,
     out |-> Unset, filter |-> [name |-> Unset, path |-> Unset, type |-> Unset],
     raw |-> Unset, swagger |-> Unset, typescript |-> Unset,
     tsnamespace |-> Unset]

\* The option records yargs can hand to each command.
OptionsOf(c) ==
    CASE c = "request" ->
           { [NoOptions EXCEPT !.method = m, !.path = p, !.body = b,
                               !.query = q, !.out = o] :
               m \in Methods, p \in Paths, b \in BodyTexts, q \in QueryTexts,
               o \in Outs }
      [] c = "listen" ->
           { [NoOptions EXCEPT !.filter = f, !.out = o] :
               f \in Filters, o \in Outs }
      [] c = "schema" ->
           { [NoOptions EXCEPT !.raw = r, !.swagger = s, !.typescript = t,
                               !.tsnamespace = n] :
               r \in SchemaDirs, s \in SchemaDirs, t \in SchemaDirs,
               n \in Namespaces }
      [] OTHER -> { NoOptions }

\* What the connected client reports: the LCU port and its auth token.
Credentials == { [port |-> 2999, token |-> "cmlvdDph"],
                 [port |-> 50123, token |-> "cmlvdDpi"] }
NoCredentials == [port |-> 0, token |-> ""]

\* The events the websocket may deliver.
Events ==
    { JObj(<< <<"eventType", JStr("Update")>>, <<"data", JNum(1)>> >>),
      JObj(<< <<"eventType", JStr("Delete")>> >>) }

\* The responses and failures client.request may end in.
Responses ==
    { [status |-> 200, data |-> d] :
        d \in { JStr("ok"), JObj(<< <<"id", JNum(7)>> >>), JUndef } }
LCUErrors ==
    { [kind |-> "LCUError", statusCode |-> JNum(404),
       errorCode |-> JStr("RESOURCE_NOT_FOUND"), message |-> JStr("Not Found"),
       implementationDetails |-> d] : d \in { JUndef, JObj(<<>>) } }
RequestErrors ==
    { [kind |-> "RequestError", errorCode |-> c, message |-> m] :
        c \in { JUndef, JStr("ECONNREFUSED") },
        m \in { JUndef, JStr("socket hang up") } }
NoResult == [kind |-> "none"]

\* JSON.parse on the texts of BodyTexts and QueryTexts.
JSONParse(text) ==
    CASE text = "7" -> [ok |-> TRUE, v |-> JNum(7)]
      [] text = "\"q\"" -> [ok |-> TRUE, v |-> JStr("q")]
      [] OTHER -> [ok |-> FALSE]

\* ------------------------------------------------------------------ state

VARIABLES
    cmd,          \* options._[0]
    opts,         \* the parsed options
    pc,           \* where the main flow of the module stands
    attempts,     \* 'connection-attempt-failed' signals seen so far
    client,       \* the client handle: "none", "connecting" or "connected"
    cred,         \* port and token of the client, once connected
    out,          \* the resolved output target of request and listen
    isDirectory,  \* whether fs.stat(out) found a directory
    requests,     \* the configs passed to client.request, in order
    result,       \* what the request ended in
    listeners,    \* the subscriptions passed to addLCUEventListener
    events,       \* the events delivered to the callback, in order
    cb,           \* cb[i]: where the callback for events[i] stands
    schemaCalls,  \* the calls made to @hasagi/schema, in order
    fsDirs,       \* the directories that exist
    fsFiles,      \* the files that exist, path |-> content
    fsLog,        \* the fs calls made: operation and path argument
    stdout        \* the lines written by console.log

vars == << cmd, opts, pc, attempts, client, cred, out, isDirectory, requests,
           result, listeners, events, cb, schemaCalls, fsDirs, fsFiles, fsLog,
           stdout >>

\* log(text)
log(text) == "[hasagi] " \o text

Init ==
    /\ cmd \in Commands
    /\ opts \in OptionsOf(cmd)
    /\ pc = "main"
    /\ attempts = 0
    /\ client = "none"
    /\ cred = NoCredentials
    /\ out = Unset
    /\ isDirectory = FALSE
    /\ requests = <<>>
    /\ result = NoResult
    /\ listeners = <<>>
    /\ events = <<>>
    /\ cb = <<>>
    /\ schemaCalls = <<>>
    /\ fsDirs = { ".", "d" }
    /\ fsFiles = ("f" :> "old")
    /\ fsLog = <<>>
    /\ stdout = <<>>

\* ------------------------------------------------------------ file system

\* The file or directory a path argument names.
Key(p) == Flat(Normalize(p))

\* fs.stat(p).then(stat => stat.isDirectory(), () => false)
StatIsDirectory(p) == Key(p) \in fsDirs

\* The files after fs.writeFile(p, data) on files fs.
WriteFile(fs, p, data) ==
    [k \in DOMAIN fs \cup {Key(p)} |-> IF k = Key(p) THEN data ELSE fs[k]]

\* AppendFile that replaces the content, as fs.writeFile would.
AppendFileOverwrites(fs, p, data) == WriteFile(fs, p, data)

\* The files after fs.appendFile(p, data) on files fs: one write of all of
\* data at the end of the file, which is created when missing.
AppendFile(fs, p, data) ==
    [k \in DOMAIN fs \cup {Key(p)} |->
        IF k = Key(p)
        THEN (IF k \in DOMAIN fs THEN fs[k] ELSE "") \o data
        ELSE fs[k]]

FsCall(op, p) == [op |-> op, path |-> Flat(p)]

\* ------------------------------------------------------- client readiness

\* new HasagiClient(); client.on("connection-attempt-failed", ...);
\* client.connect() is called and awaited.
StartClient ==
    /\ pc = "main"
    /\ cmd \in ClientCommands
    /\ pc' = "connecting"
    /\ client' = "connecting"
    /\ UNCHANGED << cmd, opts, attempts, cred, out, isDirectory, requests,
                    result, listeners, events, cb, schemaCalls, fsDirs,
                    fsFiles, fsLog, stdout >>

\* The handler of 'connection-attempt-failed'.
ConnectionAttemptFailed ==
    /\ client = "connecting"
    /\ attempts < MaxAttempts
    /\ attempts' = attempts + 1
    /\ stdout' = Append(stdout, log("Waiting for League of Legends client..."))
    /\ UNCHANGED << cmd, opts, pc, client, cred, out, isDirectory, requests,
                    result, listeners, events, cb, schemaCalls, fsDirs,
                    fsFiles, fsLog >>

\* The client finds the LCU: client.connect() resolves and the main flow,
\* which awaits it, goes on.
Connected ==
    /\ pc = "connecting"
    /\ client = "connecting"
    /\ client' = "connected"
    /\ \E c \in Credentials : cred' = c
    /\ pc' = "connected"
    /\ UNCHANGED << cmd, opts, attempts, out, isDirectory, requests, result,
                    listeners, events, cb, schemaCalls, fsDirs, fsFiles,
                    fsLog, stdout >>


\* ---------------------------------------------------------------- request

\* ResolveOut without the "./" of the empty string.
ResolveOutKeepsEmpty(o) == o

\* options.out === undefined ? undefined : options.out !== "" ? options.out : "./"
ResolveOut(o) ==
    IF ~o.set THEN Unset
    ELSE IF o.v # <<>> THEN o
    ELSE Given(<<".", "/">>)

\* if (out): a string is truthy unless it is empty.
OutGiven(o) == o.set /\ o.v # <<>>

\* typeof text === "string" ? JSON.parse(text) : undefined
ParseOption(o) == IF o.set THEN JSONParse(o.v) ELSE [ok |-> TRUE, v |-> JUndef]

\* ResultFileName without the replaceAll.
ResultFileNameKeepsSlashes(method, path, now) ==
    method \o <<"-">> \o substring(path, 1) \o <<"-", ToString(now), ".json">>

\* `${method}-${path.substring(1).replaceAll("/", "_")}-${Date.now()}.json`
ResultFileName(method, path, now) ==
    method \o <<"-">> \o replaceAll(substring(path, 1), "/", "_")
           \o <<"-", ToString(now), ".json">>

\* isDirectory ? _path.join(out, name) : out
TargetPath(o, isDir, name) == IF isDir THEN PathJoin(o.v, name) ELSE o.v

\* The config object of the client.request call.
RequestConfig(method, path, body, query) ==
    [method |-> Flat(method), url |-> Flat(path), returnAxiosResponse |-> TRUE,
     data |-> body, params |-> query]

\* res => ({ statusCode: res.status, body: res.data })
OnFulfilled(res) ==
    [kind |-> "ok", statusCode |-> JNum(res.status), body |-> res.data]

\* (err: RequestError | LCUError) => err
OnRejected(err) == err

\* The value JSON.stringify sees in a result: the record of a response, or
\* the properties of the error object.
ResultJson(r) ==
    CASE r.kind = "ok" ->
           JObj(<< <<"statusCode", r.statusCode>>, <<"body", r.body>> >>)
      [] r.kind = "LCUError" ->
           JObj(<< <<"statusCode", r.statusCode>>, <<"errorCode", r.errorCode>>,
                   <<"message", r.message>>,
                   <<"implementationDetails", r.implementationDetails>> >>)
      [] OTHER ->
           JObj(<< <<"errorCode", r.errorCode>>, <<"message", r.message>> >>)

\* ResultLines with the else of the last branch lost: an error result
\* falls through to the lines of a response.
ResultLinesFallThrough(r) ==
    LET response ==
            << log("Received response with status code '"
                     \o Interp(IF r.kind = "RequestError" THEN JUndef
                                ELSE r.statusCode) \o "'."),
               log("Response: "
                     \o Stringify(IF r.kind = "ok" THEN r.body ELSE JUndef)) >>
    IN CASE r.kind = "LCUError" ->
              << log("Received response with non-success status code '"
                       \o Interp(r.statusCode) \o "'."),
                 log("Error code: '" \o Interp(r.errorCode) \o "'."),
                 log("Error message: '" \o Interp(r.message) \o "'") >>
              \o response
         [] r.kind = "RequestError" ->
              << log(Interp(Coalesce(r.errorCode, JStr("RequestError"))) \o ": "
                       \o Interp(Coalesce(r.message, JStr("An error occurred")))) >>
              \o response
         [] OTHER -> response

\* The lines the command prints for a result.
ResultLines(r) ==
    CASE r.kind = "LCUError" ->
           << log("Received response with non-success status code '"
                    \o Interp(r.statusCode) \o "'."),
              log("Error code: '" \o Interp(r.errorCode) \o "'."),
              log("Error message: '" \o Interp(r.message) \o "'") >>
           \o (IF Truthy(r.implementationDetails)
               THEN << log("Additional details: "
                             \o Stringify(r.implementationDetails)) >>
               ELSE <<>>)
      [] r.kind = "RequestError" ->
           << log(Interp(Coalesce(r.errorCode, JStr("RequestError"))) \o ": "
                    \o Interp(Coalesce(r.message, JStr("An error occurred")))) >>
      [] OTHER ->
           << log("Received response with status code '"
                    \o Interp(r.statusCode) \o "'."),
              log("Response: " \o Stringify(r.body)) >>

\* RequestPrepare that does not wait for client.connect().
RequestPrepareNoAwait ==
    /\ pc \in {"connecting", "connected"}
    /\ cmd = "request"
    /\ out' = ResolveOut(opts.out)
    /\ isDirectory' = (out'.set /\ StatIsDirectory(out'.v))
    /\ fsLog' = IF out'.set THEN Append(fsLog, FsCall("stat", out'.v))
                ELSE fsLog
    /\ pc' = "prepared"
    /\ UNCHANGED << cmd, opts, attempts, client, cred, requests, result,
                    listeners, events, cb, schemaCalls, fsDirs, fsFiles,
                    stdout >>

\* Lines 49-56: method and path, JSON.parse of --body and --query (either
\* may throw, which ends the process), the output target and its stat.
RequestPrepare ==
    /\ pc = "connected"
    /\ cmd = "request"
    /\ IF ParseOption(opts.body).ok /\ ParseOption(opts.query).ok
       THEN /\ out' = ResolveOut(opts.out)
            /\ isDirectory' = (out'.set /\ StatIsDirectory(out'.v))
            /\ fsLog' = IF out'.set THEN Append(fsLog, FsCall("stat", out'.v))
                        ELSE fsLog
            /\ pc' = "prepared"
       ELSE /\ pc' = "crashed"
            /\ UNCHANGED << out, isDirectory, fsLog >>
    /\ UNCHANGED << cmd, opts, attempts, client, cred, requests, result,
                    listeners, events, cb, schemaCalls, fsDirs, fsFiles,
                    stdout >>

\* Lines 58-64: the notice and the client.request call.
RequestSend ==
    /\ pc = "prepared"
    /\ stdout' = Append(stdout,
           log("Sending '" \o Flat(toUpperCase(opts.method))
                 \o "' request to 'https://127.0.0.1:" \o ToString(cred.port)
                 \o Flat(opts.path) \o "'..."))
    /\ requests' = Append(requests,
           RequestConfig(toUpperCase(opts.method), opts.path,
                         ParseOption(opts.body).v, ParseOption(opts.query).v))
    /\ pc' = "requesting"
    /\ UNCHANGED << cmd, opts, attempts, client, cred, out, isDirectory,
                    result, listeners, events, cb, schemaCalls, fsDirs,
                    fsFiles, fsLog >>

\* Lines 65-68: the promise of client.request settles and either handler
\* of .then turns it into the result.
RequestSettle ==
    /\ pc = "requesting"
    /\ \/ \E res \in Responses : result' = OnFulfilled(res)
       \/ \E err \in LCUErrors \cup RequestErrors : result' = OnRejected(err)
    /\ pc' = "settled"
    /\ UNCHANGED << cmd, opts, attempts, client, cred, out, isDirectory,
                    requests, listeners, events, cb, schemaCalls, fsDirs,
                    fsFiles, fsLog, stdout >>

\* Lines 70-72: the result goes to the output target, when there is one.
\* A failing fs.writeFile throws, which ends the process.
RequestWrite ==
    /\ pc = "settled"
    /\ IF OutGiven(out)
       THEN \E now \in Timestamps, ok \in BOOLEAN :
              LET name == ResultFileName(toUpperCase(opts.method), opts.path,
                                         now)
                  target == TargetPath(out, isDirectory, name)
              IN /\ fsLog' = Append(fsLog, FsCall("writeFile", target))
                 /\ IF ok
                    THEN /\ fsFiles' = WriteFile(fsFiles, target,
                                                 Stringify(ResultJson(result)))
                         /\ pc' = "written"
                    ELSE /\ pc' = "crashed"
                         /\ UNCHANGED fsFiles
       ELSE /\ pc' = "written"
            /\ UNCHANGED << fsFiles, fsLog >>
    /\ UNCHANGED << cmd, opts, attempts, client, cred, out, isDirectory,
                    requests, result, listeners, events, cb, schemaCalls,
                    fsDirs, stdout >>

\* Lines 74-85: the result is printed.
RequestPrint ==
    /\ pc = "written"
    /\ stdout' = stdout \o ResultLines(result)
    /\ pc' = "exit"
    /\ UNCHANGED << cmd, opts, attempts, client, cred, out, isDirectory,
                    requests, result, listeners, events, cb, schemaCalls,
                    fsDirs, fsFiles, fsLog >>


\* ----------------------------------------------------------------- listen

EventsFile == <<"lcu-websocket-events.txt">>

\* JSON.stringify(event, null, 4) + "\n"
EventRecord(e) == Stringify(e) \o "\n"

\* log(`Received event: ${JSON.stringify(event, null, 4)}`)
EventLine(e) == log("Received event: " \o Stringify(e))

Listening == pc \in {"idle", "sleeping"}

\* Lines 91-109: the filter, the output target and its stat, and the
\* subscription.
ListenSubscribe ==
    /\ pc = "connected"
    /\ cmd = "listen"
    /\ out' = ResolveOut(opts.out)
    /\ isDirectory' = (out'.set /\ StatIsDirectory(out'.v))
    /\ fsLog' = IF out'.set THEN Append(fsLog, FsCall("stat", out'.v))
                ELSE fsLog
    /\ listeners' = Append(listeners, opts.filter)
    /\ pc' = "idle"
    /\ UNCHANGED << cmd, opts, attempts, client, cred, requests, result,
                    events, cb, schemaCalls, fsDirs, fsFiles, stdout >>

\* Line 111: the loop awaits delay(100) ...
IdleDelay ==
    /\ pc = "idle"
    /\ pc' = "sleeping"
    /\ UNCHANGED << cmd, opts, attempts, client, cred, out, isDirectory,
                    requests, result, listeners, events, cb, schemaCalls,
                    fsDirs, fsFiles, fsLog, stdout >>

\* IdleWake that leaves the loop, as a loop with a condition would.
IdleWakeLeaves ==
    /\ pc = "sleeping"
    /\ pc' = "exit"
    /\ UNCHANGED << cmd, opts, attempts, client, cred, out, isDirectory,
                    requests, result, listeners, events, cb, schemaCalls,
                    fsDirs, fsFiles, fsLog, stdout >>

\* ... and the timer fires: the loop goes round.
IdleWake ==
    /\ pc = "sleeping"
    /\ pc' = "idle"
    /\ UNCHANGED << cmd, opts, attempts, client, cred, out, isDirectory,
                    requests, result, listeners, events, cb, schemaCalls,
                    fsDirs, fsFiles, fsLog, stdout >>

\* The client delivers event e: the callback runs up to its first await.
\* With an output target that is the call of fs.appendFile, whose promise
\* is outstanding; without one the callback logs and is done.
Deliver(e) ==
    /\ Listening
    /\ Len(listeners) > 0
    /\ Len(events) < MaxEvents
    /\ events' = Append(events, e)
    /\ IF OutGiven(out)
       THEN /\ cb' = Append(cb, "appending")
            /\ fsLog' = Append(fsLog,
                   FsCall("appendFile", TargetPath(out, isDirectory, EventsFile)))
            /\ UNCHANGED stdout
       ELSE /\ cb' = Append(cb, "done")
            /\ stdout' = Append(stdout, EventLine(e))
            /\ UNCHANGED fsLog
    /\ UNCHANGED << cmd, opts, pc, attempts, client, cred, out, isDirectory,
                    requests, result, listeners, schemaCalls, fsDirs,
                    fsFiles >>

\* The fs.appendFile of callback i takes effect, or fails.  Calls that are
\* outstanding together run on the thread pool and finish in any order.
AppendWrite(i) ==
    /\ Listening
    /\ cb[i] = "appending"
    /\ \E ok \in BOOLEAN :
         IF ok
         THEN /\ fsFiles' = AppendFile(fsFiles,
                                TargetPath(out, isDirectory, EventsFile),
                                EventRecord(events[i]))
              /\ cb' = [cb EXCEPT ![i] = "written"]
         ELSE /\ cb' = [cb EXCEPT ![i] = "rejected"]
              /\ UNCHANGED fsFiles
    /\ UNCHANGED << cmd, opts, pc, attempts, client, cred, out, isDirectory,
                    requests, result, listeners, events, schemaCalls, fsDirs,
                    fsLog, stdout >>

\* The await of callback i returns: the callback logs and is done.
AppendResolve(i) ==
    /\ Listening
    /\ cb[i] = "written"
    /\ stdout' = Append(stdout, EventLine(events[i]))
    /\ cb' = [cb EXCEPT ![i] = "done"]
    /\ UNCHANGED << cmd, opts, pc, attempts, client, cred, out, isDirectory,
                    requests, result, listeners, events, schemaCalls, fsDirs,
                    fsFiles, fsLog >>

\* The promise of a callback whose append failed is rejected and nothing
\* handles it: the runtime may end the process.
UnhandledRejection ==
    /\ Listening
    /\ \E i \in 1..Len(cb) : cb[i] = "rejected"
    /\ pc' = "crashed"
    /\ UNCHANGED << cmd, opts, attempts, client, cred, out, isDirectory,
                    requests, result, listeners, events, cb, schemaCalls,
                    fsDirs, fsFiles, fsLog, stdout >>

\* ----------------------------------------------------------------- schema

\* What getExtendedHelp(true) resolves to.
ExtendedHelp ==
    [consoleSchema |-> JObj(<< <<"functions", JNum(1)>> >>),
     fullSchema |-> JObj(<< <<"functions", JNum(2)>> >>),
     extendedSchema |-> JObj(<< <<"functions", JNum(3)>> >>)]

\* What getSwagger(extendedSchema) resolves to.
Swagger(extended) == JObj(<< <<"openapi", JStr("3.0.0")>>, <<"x", extended>> >>)

\* What getTypeScript(swaggerObj, extendedSchema, tsnamespace) resolves to.
TypeScript(swaggerObj, extended, ns) ==
    LET name == IF ns.set THEN ns.v ELSE "undefined"
    IN [lcuTypes |-> "types " \o name,
        lcuEndpoints |-> "endpoints " \o name,
        lcuEvents |-> "events " \o name]

\* dir !== "" ? dir : "./"
SchemaOut(o) == IF o.v # <<>> THEN o.v ELSE <<".", "/">>

\* The state of the file system after the first n of: fs.mkdir(dir,
\* { recursive: true }), then fs.writeFile of each <<name, data>> of files
\* inside dir.
RECURSIVE WriteAll(_, _, _, _)
WriteAll(fs, dir, files, n) ==
    IF n = 0 \/ Len(files) = 0 THEN fs
    ELSE WriteAll(WriteFile(fs, PathJoin(dir, <<files[1][1]>>), files[1][2]),
                  dir, Tail(files), n - 1)

FsCallsOf(dir, files, n) ==
    [i \in 1..n |-> IF i = 1 THEN FsCall("mkdir", dir)
                    ELSE FsCall("writeFile", PathJoin(dir, <<files[i - 1][1]>>))]

RawFiles ==
    << <<"console-schema.json", Stringify(ExtendedHelp.consoleSchema)>>,
       <<"full-schema.json", Stringify(ExtendedHelp.fullSchema)>>,
       <<"extended-schema.json", Stringify(ExtendedHelp.extendedSchema)>> >>

SwaggerFiles ==
    << <<"swagger.json", Stringify(Swagger(ExtendedHelp.extendedSchema))>> >>

TypeScriptFiles(ns) ==
    LET ts == TypeScript(Swagger(ExtendedHelp.extendedSchema),
                         ExtendedHelp.extendedSchema, ns)
    IN << <<"lcu-types.d.ts", ts.lcuTypes>>,
          <<"lcu-endpoints.d.ts", ts.lcuEndpoints>>,
          <<"lcu-events.d.ts", ts.lcuEvents>> >>

\* One block of the command: the directory is made and the files written,
\* one fs call after the other; the first that fails throws, which ends
\* the process.  The calls made are the mkdir and the writes up to and
\* including the failing one.
SchemaEmit(o, files, next) ==
    \E done \in 0..(Len(files) + 1) :
        LET dir == SchemaOut(o)
            made == IF done = Len(files) + 1 THEN done ELSE done + 1
        IN /\ fsDirs' = IF done >= 1 THEN fsDirs \cup {Key(dir)} ELSE fsDirs
           /\ fsFiles' = IF done >= 1 THEN WriteAll(fsFiles, dir, files, done - 1)
                         ELSE fsFiles
           /\ fsLog' = fsLog \o FsCallsOf(dir, files, made)
           /\ pc' = IF done = Len(files) + 1 THEN next ELSE "crashed"

\* SchemaFetch without the guard on the three options.
SchemaFetchUnguarded ==
    /\ pc = "main"
    /\ cmd = "schema"
    /\ schemaCalls' = Append(schemaCalls, "getExtendedHelp")
    /\ pc' = "raw"
    /\ UNCHANGED << cmd, opts, attempts, client, cred, out, isDirectory,
                    requests, result, listeners, events, cb, fsDirs, fsFiles,
                    fsLog, stdout >>

\* Lines 113-119: nothing to do without --raw, --swagger and --typescript;
\* otherwise getExtendedHelp(true) is called and awaited.
SchemaFetch ==
    /\ pc = "main"
    /\ cmd = "schema"
    /\ IF opts.raw.set \/ opts.swagger.set \/ opts.typescript.set
       THEN /\ schemaCalls' = Append(schemaCalls, "getExtendedHelp")
            /\ pc' = "raw"
       ELSE /\ pc' = "exit"
            /\ UNCHANGED schemaCalls
    /\ UNCHANGED << cmd, opts, attempts, client, cred, out, isDirectory,
                    requests, result, listeners, events, cb, fsDirs, fsFiles,
                    fsLog, stdout >>

\* Lines 120-126: the three raw schemas.
SchemaRaw ==
    /\ pc = "raw"
    /\ IF opts.raw.set
       THEN SchemaEmit(opts.raw, RawFiles, "derive")
       ELSE /\ pc' = "derive"
            /\ UNCHANGED << fsDirs, fsFiles, fsLog >>
    /\ UNCHANGED << cmd, opts, attempts, client, cred, out, isDirectory,
                    requests, result, listeners, events, cb, schemaCalls,
                    stdout >>

\* SchemaDerive that derives the Swagger document whatever was asked for.
SchemaDeriveAlways ==
    /\ pc = "derive"
    /\ schemaCalls' = Append(schemaCalls, "getSwagger")
    /\ pc' = "swagger"
    /\ UNCHANGED << cmd, opts, attempts, client, cred, out, isDirectory,
                    requests, result, listeners, events, cb, fsDirs, fsFiles,
                    fsLog, stdout >>

\* Line 128: the Swagger document, for --swagger and for --typescript.
SchemaDerive ==
    /\ pc = "derive"
    /\ schemaCalls' = IF opts.swagger.set \/ opts.typescript.set
                      THEN Append(schemaCalls, "getSwagger")
                      ELSE schemaCalls
    /\ pc' = "swagger"
    /\ UNCHANGED << cmd, opts, attempts, client, cred, out, isDirectory,
                    requests, result, listeners, events, cb, fsDirs, fsFiles,
                    fsLog, stdout >>

\* Lines 130-134: swagger.json.
SchemaSwagger ==
    /\ pc = "swagger"
    /\ IF opts.swagger.set
       THEN SchemaEmit(opts.swagger, SwaggerFiles, "typescript")
       ELSE /\ pc' = "typescript"
            /\ UNCHANGED << fsDirs, fsFiles, fsLog >>
    /\ UNCHANGED << cmd, opts, attempts, client, cred, out, isDirectory,
                    requests, result, listeners, events, cb, schemaCalls,
                    stdout >>

\* Lines 136-143: getTypeScript and the three declaration files.
SchemaTypeScript ==
    /\ pc = "typescript"
    /\ IF opts.typescript.set
       THEN /\ schemaCalls' = Append(schemaCalls, "getTypeScript")
            /\ SchemaEmit(opts.typescript, TypeScriptFiles(opts.tsnamespace),
                          "exit")
       ELSE /\ pc' = "exit"
            /\ UNCHANGED << schemaCalls, fsDirs, fsFiles, fsLog >>
    /\ UNCHANGED << cmd, opts, attempts, client, cred, out, isDirectory,
                    requests, result, listeners, events, cb, stdout >>

\* ------------------------------------------------------------ credentials

\* Line 150: the URL and the Authorization header, as pretty JSON.
CredentialsPrint ==
    /\ pc = "connected"
    /\ cmd = "credentials"
    /\ stdout' = Append(stdout, log(Stringify(JObj(
           << <<"url", JStr("https://127.0.0.1:" \o ToString(cred.port))>>,
              <<"Authorization", JStr("Basic " \o cred.token)>> >>))))
    /\ pc' = "exit"
    /\ UNCHANGED << cmd, opts, attempts, client, cred, out, isDirectory,
                    requests, result, listeners, events, cb, schemaCalls,
                    fsDirs, fsFiles, fsLog >>

\* Line 153: process.exit()
Exit ==
    /\ pc = "exit"
    /\ pc' = "exited"
    /\ UNCHANGED << cmd, opts, attempts, client, cred, out, isDirectory,
                    requests, result, listeners, events, cb, schemaCalls,
                    fsDirs, fsFiles, fsLog, stdout >>

\* ---------------------------------------------------------- specification

Next ==
    \/ StartClient
    \/ ConnectionAttemptFailed
    \/ Connected
    \/ RequestPrepare
    \/ RequestSend
    \/ RequestSettle
    \/ RequestWrite
    \/ RequestPrint
    \/ ListenSubscribe
    \/ IdleDelay
    \/ IdleWake
    \/ \E e \in Events : Deliver(e)
    \/ \E i \in 1..Len(cb) : AppendWrite(i)
    \/ \E i \in 1..Len(cb) : AppendResolve(i)
    \/ UnhandledRejection
    \/ SchemaFetch
    \/ SchemaRaw
    \/ SchemaDerive
    \/ SchemaSwagger
    \/ SchemaTypeScript
    \/ CredentialsPrint
    \/ Exit

Spec == Init /\ [][Next]_vars


\* ================================================================= claims

\* The file system the process starts in.
FilesAtStart == ("f" :> "old")
DirsAtStart == { ".", "d" }

Notice == "[hasagi] Waiting for League of Legends client..."

\* What was printed after the waiting notices.
Printed == SubSeq(stdout, attempts + 1, Len(stdout))

\* What the request command printed after its 'Sending' line.
PrintedResult == SubSeq(stdout, attempts + 2, Len(stdout))

CallsOf(op) == { i \in 1..Len(fsLog) : fsLog[i].op = op }

AfterRequest == { "requesting", "settled", "written", "exit", "exited" }
AfterPrepare == { "prepared" } \cup AfterRequest
AfterWrite == { "written", "exit", "exited" }

\* The orders in which the members of a set of indices can come.
Orderings(S) ==
    { f \in [1..Cardinality(S) -> S] :
        \A i, j \in 1..Cardinality(S) : i # j => f[i] # f[j] }

Ascending(S) ==
    CHOOSE f \in Orderings(S) :
        \A i, j \in 1..Cardinality(S) : i < j => f[i] < f[j]

\* The pretty JSON of events[order[k]] plus a newline, for k = from..Len(order).
RECURSIVE RecordsFrom(_, _)
RecordsFrom(order, from) ==
    IF from > Len(order) THEN ""
    ELSE Stringify(events[order[from]]) \o "\n" \o RecordsFrom(order, from + 1)

\* The file listen appends to, and what it held at the start and holds now.
EventsTarget ==
    IF isDirectory THEN Flat(PathJoin(out.v, <<"lcu-websocket-events.txt">>))
    ELSE Flat(Normalize(out.v))
EventsBefore ==
    IF EventsTarget \in DOMAIN FilesAtStart THEN FilesAtStart[EventsTarget]
    ELSE ""
EventsNow ==
    IF EventsTarget \in DOMAIN fsFiles THEN fsFiles[EventsTarget] ELSE ""
Appended == { i \in 1..Len(cb) : cb[i] \in {"written", "done"} }
Logged == { i \in 1..Len(cb) : cb[i] = "done" }

\* C1: while client.connect() is outstanding no request is issued, no
\* subscription is registered and nothing but waiting notices is printed,
\* one for each 'connection-attempt-failed'; request issues one
\* client.request call and listen registers one subscription, never more.
C1_NothingBeforeConnect ==
    /\ client # "connected" =>
         /\ requests = <<>>
         /\ listeners = <<>>
         /\ Len(stdout) = attempts
         /\ \A i \in 1..Len(stdout) : stdout[i] = Notice
    /\ Len(requests) <= 1
    /\ Len(listeners) <= 1
    /\ (cmd = "request" /\ pc \in AfterRequest) => Len(requests) = 1
    /\ (cmd = "listen" /\ pc \in {"idle", "sleeping"}) => Len(listeners) = 1
    /\ cmd # "request" => requests = <<>>
    /\ cmd # "listen" => listeners = <<>>

\* A request that was sent once, after a failed connection attempt.
C1_Witness ==
    /\ cmd = "request"
    /\ pc = "exited"
    /\ attempts >= 1
    /\ Len(requests) = 1

\* C2: with an output target, listen calls fs.appendFile once for every
\* delivered event, and the target holds what it held at the start followed
\* by one whole record (pretty JSON plus newline) for every callback whose
\* append is through, in some order and with nothing in between.
C2_WholeRecords ==
    (cmd = "listen" /\ OutGiven(out)) =>
        /\ Cardinality(CallsOf("appendFile")) = Len(events)
        /\ \A i \in CallsOf("appendFile") :
             fsLog[i].path = (IF isDirectory THEN EventsTarget ELSE Flat(out.v))
        /\ \E order \in Orderings(Appended) :
             EventsNow = EventsBefore \o RecordsFrom(order, 1)
        /\ \A k \in DOMAIN fsFiles \ {EventsTarget} :
             k \in DOMAIN FilesAtStart /\ fsFiles[k] = FilesAtStart[k]

\* Two different events whose callbacks were in flight together: the
\* second is through while the append of the first is outstanding.
C2_Witness ==
    /\ cmd = "listen"
    /\ OutGiven(out)
    /\ Len(cb) = 2
    /\ events[1] # events[2]
    /\ cb[1] = "appending"
    /\ cb[2] = "done"

\* C10: the records in the file and the 'Received event' lines come in the
\* order in which the events were delivered.
C10_DeliveryOrder ==
    (cmd = "listen" /\ OutGiven(out)) =>
        /\ EventsNow = EventsBefore \o RecordsFrom(Ascending(Appended), 1)
        /\ Printed = [k \in 1..Cardinality(Logged) |->
                        "[hasagi] Received event: "
                          \o Stringify(events[Ascending(Logged)[k]])]

\* The files that were not there at the start.
NewFiles == DOMAIN fsFiles \ DOMAIN FilesAtStart

\* The name of the result file as the code derives it, and as the claim
\* words it, for timestamp now.
DerivedName(now) ==
    toUpperCase(opts.method) \o <<"-">>
        \o replaceAll(substring(opts.path, 1), "/", "_")
        \o <<"-", ToString(now), ".json">>
ClaimedName(now) ==
    toUpperCase(opts.method) \o <<"-">> \o replaceAll(opts.path, "/", "_")
        \o <<"-", ToString(now), ".json">>

\* The 4-space pretty JSON of { statusCode, body }.
PrettyResponse(statusCode, body) ==
    "{\n    \"statusCode\": " \o Stringify(statusCode)
      \o (IF body.t = "undef" THEN ""
          ELSE ",\n    \"body\": " \o StringifyAt(body, 1))
      \o "\n}"

\* C3 as amended: with --out an existing directory, once the write is
\* through exactly one file is new, it lies in that directory, its name is
\* METHOD-(path without its first character, "/" replaced by "_")-
\* timestamp.json, and it holds the pretty JSON of the result: of
\* { statusCode, body } for a response, of the error object otherwise.
C3_DirectoryFile ==
    (cmd = "request" /\ isDirectory /\ pc \in AfterWrite) =>
        \E now \in Timestamps :
            LET file == Flat(PathJoin(out.v, DerivedName(now)))
            IN /\ NewFiles = {file}
               /\ \A k \in DOMAIN FilesAtStart : fsFiles[k] = FilesAtStart[k]
               /\ Cardinality(CallsOf("writeFile")) = 1
               /\ fsLog[Len(fsLog)] = [op |-> "writeFile", path |-> file]
               /\ IF result.kind = "ok"
                  THEN fsFiles[file]
                         = PrettyResponse(result.statusCode, result.body)
                  ELSE /\ fsFiles[file] = Stringify(ResultJson(result))
                       /\ \A res \in Responses :
                            fsFiles[file]
                              # PrettyResponse(JNum(res.status), res.data)

\* A response written into the directory "d" for the path /a/b.
C3_Witness ==
    /\ cmd = "request"
    /\ pc = "exited"
    /\ isDirectory
    /\ out = Given(<<"d">>)
    /\ opts.path = <<"/", "a", "/", "b">>
    /\ result.kind = "ok"
    /\ \E now \in Timestamps :
         "d/" \o Flat(toUpperCase(opts.method)) \o "-a_b-" \o ToString(now)
              \o ".json" \in DOMAIN fsFiles

\* C3 as claimed: the name holds the whole path with every "/" replaced,
\* and the file holds the pretty JSON of { statusCode, body }.
C3_AsClaimed ==
    (cmd = "request" /\ isDirectory /\ pc \in AfterWrite) =>
        \E now \in Timestamps :
            LET file == Flat(PathJoin(out.v, ClaimedName(now)))
            IN /\ NewFiles = {file}
               /\ result.kind = "ok"
               /\ fsFiles[file] = PrettyResponse(result.statusCode, result.body)

\* C4: a protocol error is not thrown further (after it the process fails
\* only if the write to the output target fails), and what is printed for
\* it is the status code, the error code and the message, the details
\* when there are any, and no 'Response:' line.
C4_ProtocolError ==
    (cmd = "request" /\ result.kind = "LCUError") =>
        /\ pc \in {"settled", "written", "exit", "exited", "crashed"}
        /\ pc = "crashed" =>
             /\ OutGiven(out)
             /\ fsLog[Len(fsLog)].op = "writeFile"
        /\ pc \in {"exit", "exited"} =>
             /\ PrintedResult =
                  << "[hasagi] Received response with non-success status code '"
                       \o ToString(result.statusCode.n) \o "'.",
                     "[hasagi] Error code: '" \o result.errorCode.s \o "'.",
                     "[hasagi] Error message: '" \o result.message.s \o "'" >>
                  \o (IF result.implementationDetails.t = "undef" THEN <<>>
                      ELSE << "[hasagi] Additional details: "
                                \o Stringify(result.implementationDetails) >>)
             /\ \A i \in 1..Len(stdout) :
                  \A b \in {res.data : res \in Responses} \cup {JUndef} :
                      stdout[i] # "[hasagi] Response: " \o Stringify(b)

\* A 404 'Not Found' with details, printed.
C4_Witness ==
    /\ cmd = "request"
    /\ pc = "exited"
    /\ result.kind = "LCUError"
    /\ result.statusCode = JNum(404)
    /\ result.message = JStr("Not Found")
    /\ result.implementationDetails.t = "obj"
    /\ Len(PrintedResult) = 4

\* C5: what client.request ends in becomes a response record, a protocol
\* error or a transport error and is not thrown further (after it the
\* process fails only if the write to the output target fails); for a
\* transport error one line 'code: message' is printed, with
\* 'RequestError' and 'An error occurred' for what is missing, after the
\* error went to the output target when there is one, and the exit follows.
C5_TransportError ==
    /\ (cmd = "request" /\ pc \in {"settled", "written", "exit", "exited"}) =>
         result.kind \in {"ok", "LCUError", "RequestError"}
    /\ (cmd = "request" /\ pc = "crashed" /\ requests # <<>>) =>
         /\ result # NoResult
         /\ OutGiven(out)
         /\ fsLog[Len(fsLog)].op = "writeFile"
    /\ (cmd = "request" /\ result.kind = "RequestError"
          /\ pc \in {"exit", "exited"}) =>
         /\ PrintedResult =
              << "[hasagi] "
                   \o (IF result.errorCode.t = "undef" THEN "RequestError"
                       ELSE result.errorCode.s)
                   \o ": "
                   \o (IF result.message.t = "undef" THEN "An error occurred"
                       ELSE result.message.s) >>
         /\ OutGiven(out) =>
              \E now \in Timestamps :
                  LET file == IF isDirectory
                              THEN Flat(PathJoin(out.v, DerivedName(now)))
                              ELSE Flat(Normalize(out.v))
                  IN /\ file \in DOMAIN fsFiles
                     /\ fsFiles[file] = Stringify(ResultJson(result))
         /\ ENABLED Exit \/ pc = "exited"

\* A transport error without code and message, written and printed.
C5_Witness ==
    /\ cmd = "request"
    /\ pc = "exited"
    /\ result.kind = "RequestError"
    /\ result.errorCode = JUndef
    /\ result.message = JUndef
    /\ OutGiven(out)

SchemaCallsOf(name) ==
    Cardinality({ i \in 1..Len(schemaCalls) : schemaCalls[i] = name })

AnySchemaOption == opts.raw.set \/ opts.swagger.set \/ opts.typescript.set

\* The paths the raw-schema files can get.
RawSchemaPaths ==
    { Flat(PathJoin(dir, <<name>>)) :
        dir \in { <<".", "/">>, <<"s">> },
        name \in { "console-schema.json", "full-schema.json",
                   "extended-schema.json" } }

\* C6: with any of --raw, --swagger and --typescript, getExtendedHelp is
\* called once, getSwagger once with --swagger or --typescript and never
\* without them, and the raw-schema files are written with --raw only.
C6_SharedFetches ==
    (cmd = "schema" /\ AnySchemaOption) =>
        /\ SchemaCallsOf("getExtendedHelp") = (IF pc = "main" THEN 0 ELSE 1)
        /\ SchemaCallsOf("getSwagger") <= 1
        /\ SchemaCallsOf("getSwagger") = 1 =>
             opts.swagger.set \/ opts.typescript.set
        /\ pc \in {"exit", "exited"} =>
             SchemaCallsOf("getSwagger")
               = (IF opts.swagger.set \/ opts.typescript.set THEN 1 ELSE 0)
        /\ ~opts.raw.set =>
             /\ RawSchemaPaths \cap DOMAIN fsFiles = {}
             /\ \A i \in 1..Len(fsLog) : fsLog[i].path \notin RawSchemaPaths
        /\ (opts.raw.set /\ pc \in {"exit", "exited"}) =>
             \A name \in { "console-schema.json", "full-schema.json",
                           "extended-schema.json" } :
                 Flat(PathJoin(SchemaOut(opts.raw), <<name>>)) \in DOMAIN fsFiles

\* --swagger alone: one fetch, one derivation, swagger.json and no raw file.
C6_Witness ==
    /\ cmd = "schema"
    /\ pc = "exited"
    /\ ~opts.raw.set
    /\ opts.swagger.set
    /\ ~opts.typescript.set
    /\ schemaCalls = <<"getExtendedHelp", "getSwagger">>
    /\ NewFiles \in { {"swagger.json"}, {"s/swagger.json"} }

\* C7: without --raw, --swagger and --typescript, schema calls nothing of
\* the schema generator, touches no file and no directory, and goes from
\* the start straight to the exit.
C7_NoOptionsNoEffect ==
    (cmd = "schema" /\ ~AnySchemaOption) =>
        /\ schemaCalls = <<>>
        /\ fsLog = <<>>
        /\ fsFiles = FilesAtStart
        /\ fsDirs = DirsAtStart
        /\ stdout = <<>>
        /\ pc \in {"main", "exit", "exited"}

\* schema --tsnamespace LCU and nothing else, at its exit.
C7_Witness ==
    /\ cmd = "schema"
    /\ ~AnySchemaOption
    /\ opts.tsnamespace.set
    /\ pc = "exited"

C9_OutputTarget ==
    (cmd = "request" /\ pc \in AfterPrepare) =>
        /\ out = (IF ~opts.out.set THEN Unset
                  ELSE IF opts.out.v = <<>> THEN Given(<<".", "/">>)
                  ELSE opts.out)
        /\ ~opts.out.set => fsLog = <<>> /\ fsFiles = FilesAtStart
        /\ opts.out = Given(<<>>) => isDirectory
        /\ opts.out.set =>
             /\ CallsOf("stat") = {1}
             /\ fsLog[1].path = Flat(out.v)
             /\ isDirectory = (Flat(Normalize(out.v)) \in DirsAtStart)
        /\ (opts.out.set /\ pc = "prepared") => requests = <<>>
        /\ (opts.out = Given(<<>>) /\ pc \in AfterWrite) =>
             \E now \in Timestamps : NewFiles = {Flat(DerivedName(now))}
        /\ (opts.out.set /\ ~isDirectory /\ pc \in AfterWrite) =>
             /\ fsLog = << [op |-> "stat", path |-> Flat(opts.out.v)],
                           [op |-> "writeFile", path |-> Flat(opts.out.v)] >>
             /\ DOMAIN fsFiles = DOMAIN FilesAtStart \cup {Flat(opts.out.v)}
             /\ fsFiles[Flat(opts.out.v)] = Stringify(ResultJson(result))
             /\ \A k \in DOMAIN FilesAtStart \ {Flat(opts.out.v)} :
                  fsFiles[k] = FilesAtStart[k]

\* The result written over the existing file "f".
C9_Witness ==
    /\ cmd = "request"
    /\ pc = "exited"
    /\ opts.out = Given(<<"f">>)
    /\ ~isDirectory
    /\ fsFiles["f"] # "old"

=============================================================================
